---- MODULE Spec2Model ----
(***************************************************************************)
(* Model of src/server.py: PDFGenerator.generate, EmailSender.send and     *)
(* PipelineHandler._handle_submit of the VVS pipeline backend.             *)
(*                                                                         *)
(* One submission is followed from the parsed request body to the HTTP     *)
(* response.  Strings whose content the code inspects (photo payloads,     *)
(* timestamps) are modelled by the properties the library calls test.      *)
(***************************************************************************)
EXTENDS Integers, Sequences, FiniteSets, TLC

VARIABLES
    config,       \* CONFIG['smtp']['user'|'password'], CONFIG['office_email']
    data,         \* the parsed request body (job record)
    pc,           \* position of the request thread
    caller,       \* who called EmailSender.send: "handler" or "direct"
    pdf_bytes,    \* result of pdf_generator.generate(data), NoDoc before
    saved,        \* the PDF was written to output_dir
    attachments,  \* the handler's local attachment list
    sendArgs,     \* the attachments argument of the running send call
    sendCalls,    \* number of calls of EmailSender.send
    msg,          \* parts attached to the MIME message built by send
    smtpLog,      \* SMTP session events of the running send call, in order
    pending,      \* an exception is unwinding the with-block of send
    sendResult,   \* what send returned: "none", "True" or "False"
    outcome,      \* path send took: "none", "sent", "skipped", "failed"
    escaped,      \* an exception left send
    responses     \* the _json responses written, in order

vars == <<config, data, pc, caller, pdf_bytes, saved, attachments, sendArgs,
          sendCalls, msg, smtpLog, pending, sendResult, outcome, escaped,
          responses>>

(***************************************************************************)
(* Bounds of the model.                                                    *)
(***************************************************************************)
MaxExtras == 1      \* at most this many 'extra_*' photos in a record

(***************************************************************************)
(* Photo payloads.  A payload string is described by what the code's       *)
(* calls observe of it:                                                    *)
(*   uri    it starts with 'data:image'                                    *)
(*   comma  it contains a comma, so split(',')[1] exists; the remaining    *)
(*          fields then describe that part                                 *)
(*   clean  every character is in the base64 alphabet                      *)
(*   pad    after dropping the characters outside the alphabet the rest    *)
(*          has a decodable length and padding                             *)
(*   img    the decoded bytes are a raster image PIL can open              *)
(***************************************************************************)
ImgB64     == [uri |-> FALSE, comma |-> FALSE, clean |-> TRUE,  pad |-> TRUE,  img |-> TRUE]
UriImg     == [uri |-> TRUE,  comma |-> TRUE,  clean |-> TRUE,  pad |-> TRUE,  img |-> TRUE]
UriNoComma == [uri |-> TRUE,  comma |-> FALSE, clean |-> FALSE, pad |-> FALSE, img |-> FALSE]
Garbage    == [uri |-> FALSE, comma |-> FALSE, clean |-> FALSE, pad |-> FALSE, img |-> FALSE]
Lenient    == [uri |-> FALSE, comma |-> FALSE, clean |-> FALSE, pad |-> TRUE,  img |-> FALSE]
NoStr      == [uri |-> FALSE, comma |-> FALSE, clean |-> FALSE, pad |-> FALSE, img |-> FALSE]

\* A value of the photos dict.  shape "absent": key missing or value falsy
\* (None, '', {}); "str": a string; "wrapped": a dict with a 'data' string;
\* "dict": a non-empty dict without 'data'.
Absent       == [shape |-> "absent",  s |-> NoStr]
StrOf(s)     == [shape |-> "str",     s |-> s]
WrappedOf(s) == [shape |-> "wrapped", s |-> s]
DictNoData   == [shape |-> "dict",    s |-> NoStr]

photo_keys   == <<"before", "during", "detail", "after">>
photo_labels == <<"FOR - Utgangspunkt", "APENT - Under arbeid",
                  "DETALJ - Viktig info", "ETTER - Ferdig resultat">>
ExtraKeys    == <<"extra_1", "extra_2", "extra_3", "extra_4">>
FixedSlots   == {photo_keys[i] : i \in 1..Len(photo_keys)}

\* `photos_obj[key]` is truthy (lines 225, 411, 429)
Truthy(p) == p.shape # "absent"

\* base64 payload after `if s.startswith('data:image'): s = s.split(',')[1]`
\* (lines 244-245, 417-418, 436-437); IndexError when there is no comma
StripPrefix(s) ==
    IF s.uri /\ ~s.comma THEN [ok |-> FALSE, s |-> s]
    ELSE [ok |-> TRUE, s |-> [s EXCEPT !.uri = FALSE, !.comma = FALSE]]

\* base64.b64decode(s) with validate=False: characters outside the alphabet
\* are discarded, binascii.Error only for a bad length or padding
B64Decode(s) == [ok |-> s.pad, img |-> s.pad /\ s.img]

\* PIL Image.open / thumbnail / save as JPEG of the decoded bytes
ImageOpen(b) == b.img

(***************************************************************************)
(* Timestamps, by sample strings.                                          *)
(***************************************************************************)
TsAbsent    == ""
TsIsoZ      == "2024-03-01T14:30:00Z"
TsIsoOffset == "2024-03-01T14:30:00+00:00"
TsMalformed == "yesterday"
Timestamps  == {TsAbsent, TsIsoZ, TsIsoOffset, TsMalformed}

\* timestamp.replace('Z', '+00:00') on the samples
ReplaceZ(ts) == IF ts = TsIsoZ THEN TsIsoOffset ELSE ts

\* datetime.fromisoformat: ValueError unless the string is ISO-8601
FromIsoFormat(s) == [ok |-> s = TsIsoOffset, dt |-> s]

(***************************************************************************)
(* PDFGenerator.generate: the story it builds, as the blocks the claims    *)
(* are about (date/time, status table, photo table).                       *)
(***************************************************************************)
NoDoc == [date_time |-> "none", status |-> <<>>, photo_header |-> FALSE, cells |-> <<>>]

\* lines 132-138: the DATO / TID value, or the ValueError of fromisoformat
DateTimeStr(ts) ==
    IF ts # ""
    THEN LET dt == FromIsoFormat(ReplaceZ(ts))
         IN  [raised |-> ~dt.ok, str |-> IF dt.ok THEN "strftime" ELSE "none"]
    ELSE [raised |-> FALSE, str |-> "N/A"]

\* lines 194-199: the rows of the status table; `answers` is read and the
\* rows are built from the three labels alone
StatusData(answers) ==
    << [label |-> "Arbeid fullfort"],
       [label |-> "Materialer byttet"],
       [label |-> "Oppfolging pakrevd"] >>

\* `if photos_obj:` (lines 216, 406): the photos dict is non-empty
PhotosTruthy(d) ==
    (\E k \in FixedSlots : Truthy(d.photos[k])) \/ Len(d.extras) > 0

\* lines 224-232: the payload strings of the fixed slots that are present
\* and are a dict with 'data' or a str, with their labels
SelectPhotos(photos_obj) ==
    LET all == [i \in 1..Len(photo_keys) |->
                   [p |-> photos_obj[photo_keys[i]], label |-> photo_labels[i]]]
        sel == SelectSeq(all, LAMBDA e : e.p.shape \in {"str", "wrapped"})
    IN  [i \in 1..Len(sel) |-> [s |-> sel[i].p.s, label |-> sel[i].label]]

BlankCell == [image |-> FALSE, label |-> ""]

\* lines 242-261: one cell of the photo table; any exception of the decode
\* chain is caught and leaves '' in the image row and in the label row
PhotoCell(ph) ==
    LET stripped == StripPrefix(ph.s)
        bytes    == B64Decode(stripped.s)
    IN  IF stripped.ok /\ bytes.ok /\ ImageOpen(bytes)
        THEN [image |-> TRUE, label |-> ph.label]
        ELSE BlankCell

\* lines 234-267: rows of two cells over the selected photos, the last row
\* padded with ''
PhotoTable(photos) ==
    LET n == Len(photos)
    IN  [k \in 1..(2 * ((n + 1) \div 2)) |->
            IF k <= n THEN PhotoCell(photos[k]) ELSE BlankCell]

\* lines 98-290
generate(job_data) ==
    LET dts == DateTimeStr(job_data.timestamp)
    IN  [raised |-> dts.raised,
         doc    |-> [date_time    |-> dts.str,
                     status       |-> StatusData(job_data.answers),
                     photo_header |-> PhotosTruthy(job_data),
                     cells        |-> PhotoTable(SelectPhotos(job_data.photos))]]

(***************************************************************************)
(* PipelineHandler._handle_submit: names and the attachment list.          *)
(***************************************************************************)
\* line 376: f"jobbrapport_{job_id}.pdf"
PdfFilename(job_id) == [prefix |-> "jobbrapport", n |-> 0, key |-> job_id]

\* lines 421, 440: f"bilde_{photo_count}_{key}.jpg"
PhotoFilename(count, key) == [prefix |-> "bilde", n |-> count, key |-> key]

\* AttachPhoto without the skip of the except branch: a payload whose decode
\* failed is attached all the same
AttachPhotoKeepsFailed(acc, key, p) ==
    IF ~Truthy(p) THEN acc
    ELSE [att   |-> Append(acc.att, [name    |-> PhotoFilename(acc.count, key),
                                       content |-> B64Decode(p.s)]),
          count |-> acc.count + 1]

\* lines 411-425 and 429-444: one pass of either photo loop.  acc is the
\* attachment list with the running photo_count.  A payload that is not a
\* string raises AttributeError at startswith; that and the errors of the
\* decode chain are caught and the photo is skipped.
AttachPhoto(acc, key, p) ==
    IF ~Truthy(p) THEN acc
    ELSE LET stripped == StripPrefix(p.s)
             bytes    == B64Decode(stripped.s)
         IN  IF p.shape \in {"str", "wrapped"} /\ stripped.ok /\ bytes.ok
             THEN [att   |-> Append(acc.att, [name    |-> PhotoFilename(acc.count, key),
                                                content |-> bytes]),
                   count |-> acc.count + 1]
             ELSE acc

RECURSIVE AttachAll(_, _)
AttachAll(acc, items) ==
    IF items = <<>> THEN acc
    ELSE AttachAll(AttachPhoto(acc, Head(items).key, Head(items).p), Tail(items))

\* the (key, value) pairs the two loops visit: the four fixed keys in
\* photo_keys order (line 410), then the 'extra_' items in dict order (428)
PhotoItems(d) ==
    [i \in 1..Len(photo_keys) |-> [key |-> photo_keys[i], p |-> d.photos[photo_keys[i]]]]
    \o [i \in 1..Len(d.extras) |-> [key |-> ExtraKeys[i], p |-> d.extras[i]]]

\* BuildAttachments with the PDF appended after the photos
BuildAttachmentsPdfLast(d, pdf_filename, pdf) ==
    LET base == << [name |-> pdf_filename, content |-> pdf] >>
    IN  IF PhotosTruthy(d)
        THEN Tail(AttachAll([att |-> base, count |-> 1], PhotoItems(d)).att) \o base
        ELSE base

\* lines 402-444
BuildAttachments(d, pdf_filename, pdf) ==
    LET base == << [name |-> pdf_filename, content |-> pdf] >>
    IN  IF PhotosTruthy(d)
        THEN AttachAll([att |-> base, count |-> 1], PhotoItems(d)).att
        ELSE base

\* line 387: data.get('plumber', {}).get('name', ...) raises AttributeError
\* when 'plumber' holds something that is not a dict
PlumberRaises(d) == d.plumber = "other"

\* lines 453-457: the body of the 200 response
SuccessResponse(job_id, pdf_filename) ==
    [status |-> 200, success |-> TRUE, job_id |-> job_id, pdf_filename |-> pdf_filename]

\* line 465: the body of the 500 response
ErrorResponse == [status |-> 500, success |-> FALSE, error |-> "str(e)"]

(***************************************************************************)
(* EmailSender.send: helpers.                                              *)
(***************************************************************************)
\* NotConfigured testing the user name alone
NotConfiguredUserOnly(cfg) == cfg.user = ""

\* line 301: `not self.config['user'] or not self.config['password']`
NotConfigured(cfg) == cfg.user = "" \/ cfg.password = ""

\* lines 306-316: the text part, then one application part per attachment
\* (none when attachments is None or empty)
BuildMessage(atts) ==
    << [type |-> "text", filename |-> PdfFilename("")] >>
    \o [i \in 1..Len(atts) |-> [type |-> "application", filename |-> atts[i].name]]

\* SendCatches with an except clause that lets an authentication error pass
SendCatchesNotLogin(log) ==
    ~(\E i \in 1..Len(log) : log[i] = [op |-> "login", ok |-> FALSE])

\* SendCatches with an except clause for connection errors alone
SendCatchesConnectOnly(log) ==
    log # <<>> /\ log[Len(log)] = [op |-> "connect", ok |-> FALSE]

\* lines 305 and 327: the try block spans message building and the whole
\* SMTP session, and `except Exception` catches whatever a step raised
SendCatches(log) == TRUE

Event(op, ok) == [op |-> op, ok |-> ok]

(***************************************************************************)
(* Inputs.                                                                 *)
(***************************************************************************)
Configs ==
    [user         : {"", "vvs@example.com"},
     password     : {"", "app-password"},
     office_email : {"", "office@example.com"}]

AnswerValues == {"true", "false", "unset"}
Answers      == [1..3 -> AnswerValues]
Unanswered   == [i \in 1..3 |-> "unset"]

\* payloads a photo slot may hold
Payloads ==
    {Absent, StrOf(ImgB64), StrOf(UriImg), StrOf(UriNoComma), StrOf(Garbage),
     StrOf(Lenient), WrappedOf(ImgB64), DictNoData}
ExtraPayloads == {StrOf(ImgB64), StrOf(Garbage), WrappedOf(ImgB64)}

SeqsUpTo(S, n) == UNION {[1..k -> S] : k \in 0..n}

NoPhotos == [k \in FixedSlots |-> Absent]

\* records that vary what the request flow depends on
FlowRecords ==
    [id        : {"J-100"},
     timestamp : Timestamps,
     plumber   : {"dict", "other"},
     answers   : Answers,
     photos    : {[NoPhotos EXCEPT !["before"] = b, !["after"] = a] :
                     b \in {Absent, StrOf(ImgB64)}, a \in {Absent, StrOf(Garbage)}},
     extras    : {<<>>}]

\* records that vary the photo set
PhotoRecords ==
    [id        : {"J-100"},
     timestamp : {TsIsoZ},
     plumber   : {"dict"},
     answers   : {Unanswered},
     photos    : [FixedSlots -> Payloads],
     extras    : SeqsUpTo(ExtraPayloads, MaxExtras)]

(***************************************************************************)
(* The state machine.                                                      *)
(***************************************************************************)
InitWith(records) ==
    /\ config \in Configs
    /\ data \in records
    /\ pc = "h_start"
    /\ caller = "handler"
    /\ pdf_bytes = NoDoc
    /\ saved = FALSE
    /\ attachments = <<>>
    /\ sendArgs = <<>>
    /\ sendCalls = 0
    /\ msg = <<>>
    /\ smtpLog = <<>>
    /\ pending = FALSE
    /\ sendResult = "none"
    /\ outcome = "none"
    /\ escaped = FALSE
    /\ responses = <<>>

Init == InitWith(FlowRecords)

InitPhotos == InitWith(PhotoRecords)

\* line 373: pdf_bytes = self.pdf_generator.generate(data)
H_Generate ==
    /\ pc = "h_start"
    /\ LET r == generate(data)
       IN  IF r.raised
           THEN /\ pc' = "h_except"
                /\ UNCHANGED pdf_bytes
           ELSE /\ pc' = "h_save"
                /\ pdf_bytes' = r.doc
    /\ UNCHANGED <<config, data, caller, saved, attachments, sendArgs, sendCalls,
                   msg, smtpLog, pending, sendResult, outcome, escaped, responses>>

\* lines 376-380: write the PDF under output_dir; open/write may raise OSError
H_Save ==
    /\ pc = "h_save"
    /\ \E ok \in BOOLEAN :
          IF ok
          THEN /\ saved' = TRUE
               /\ pc' = "h_office"
          ELSE /\ saved' = saved
               /\ pc' = "h_except"
    /\ UNCHANGED <<config, data, caller, pdf_bytes, attachments, sendArgs, sendCalls,
                   msg, smtpLog, pending, sendResult, outcome, escaped, responses>>

\* line 383: if CONFIG['office_email']
H_CheckOffice ==
    /\ pc = "h_office"
    /\ pc' = IF config.office_email # "" THEN "h_prepare" ELSE "h_respond"
    /\ UNCHANGED <<config, data, caller, pdf_bytes, saved, attachments, sendArgs,
                   sendCalls, msg, smtpLog, pending, sendResult, outcome, escaped,
                   responses>>

\* lines 386-444: subject, body and the attachment list
H_Prepare ==
    /\ pc = "h_prepare"
    /\ IF PlumberRaises(data)
       THEN /\ pc' = "h_except"
            /\ UNCHANGED attachments
       ELSE /\ pc' = "h_send"
            /\ attachments' = BuildAttachments(data, PdfFilename(data.id), pdf_bytes)
    /\ UNCHANGED <<config, data, caller, pdf_bytes, saved, sendArgs, sendCalls,
                   msg, smtpLog, pending, sendResult, outcome, escaped, responses>>

\* lines 446-451: self.email_sender.send(..., attachments=attachments)
H_CallSend ==
    /\ pc = "h_send"
    /\ sendArgs' = attachments
    /\ pc' = "s_enter"
    /\ UNCHANGED <<config, data, caller, pdf_bytes, saved, attachments, sendCalls,
                   msg, smtpLog, pending, sendResult, outcome, escaped, responses>>

\* lines 300-316: the configuration check, then the message
S_Enter ==
    /\ pc = "s_enter"
    /\ sendCalls' = sendCalls + 1
    /\ IF NotConfigured(config)
       THEN /\ sendResult' = "False"
            /\ outcome' = "skipped"
            /\ pc' = "s_return"
            /\ UNCHANGED msg
       ELSE /\ msg' = BuildMessage(sendArgs)
            /\ pc' = "s_connect"
            /\ UNCHANGED <<sendResult, outcome>>
    /\ UNCHANGED <<config, data, caller, pdf_bytes, saved, attachments, sendArgs,
                   smtpLog, pending, escaped, responses>>

\* line 319: smtplib.SMTP(host, port) connects; raises when it cannot
S_Connect ==
    /\ pc = "s_connect"
    /\ \E ok \in BOOLEAN :
          /\ smtpLog' = Append(smtpLog, Event("connect", ok))
          /\ pc' = IF ok THEN "s_starttls" ELSE "s_except"
    /\ UNCHANGED <<config, data, caller, pdf_bytes, saved, attachments, sendArgs,
                   sendCalls, msg, pending, sendResult, outcome, escaped, responses>>

\* line 320: server.starttls(context=context)
S_StartTLS ==
    /\ pc = "s_starttls"
    /\ \E ok \in BOOLEAN :
          /\ smtpLog' = Append(smtpLog, Event("starttls", ok))
          /\ pending' = ~ok
          /\ pc' = IF ok THEN "s_login" ELSE "s_exit"
    /\ UNCHANGED <<config, data, caller, pdf_bytes, saved, attachments, sendArgs,
                   sendCalls, msg, sendResult, outcome, escaped, responses>>

\* line 321: server.login(user, password)
S_Login ==
    /\ pc = "s_login"
    /\ \E ok \in BOOLEAN :
          /\ smtpLog' = Append(smtpLog, Event("login", ok))
          /\ pending' = ~ok
          /\ pc' = IF ok THEN "s_send_message" ELSE "s_exit"
    /\ UNCHANGED <<config, data, caller, pdf_bytes, saved, attachments, sendArgs,
                   sendCalls, msg, sendResult, outcome, escaped, responses>>

\* line 322: server.send_message(msg)
S_SendMessage ==
    /\ pc = "s_send_message"
    /\ \E ok \in BOOLEAN :
          /\ smtpLog' = Append(smtpLog, Event("send_message", ok))
          /\ pending' = ~ok
          /\ pc' = "s_exit"
    /\ UNCHANGED <<config, data, caller, pdf_bytes, saved, attachments, sendArgs,
                   sendCalls, msg, sendResult, outcome, escaped, responses>>

\* S_Exit as it would be without the with-statement: QUIT and close only
\* after a session whose steps all succeeded
S_ExitLeaksOnError ==
    /\ pc = "s_exit"
    /\ \E quitOk \in BOOLEAN :
          /\ smtpLog' = IF pending THEN smtpLog
                        ELSE smtpLog \o <<Event("quit", quitOk), Event("close", TRUE)>>
          /\ IF pending \/ ~quitOk
             THEN /\ pc' = "s_except"
                  /\ UNCHANGED <<sendResult, outcome>>
             ELSE /\ pc' = "s_return"
                  /\ sendResult' = "True"
                  /\ outcome' = "sent"
    /\ pending' = FALSE
    /\ UNCHANGED <<config, data, caller, pdf_bytes, saved, attachments, sendArgs,
                   sendCalls, msg, escaped, responses>>

\* line 319, leaving the with-block: SMTP.__exit__ sends QUIT and closes the
\* socket; a QUIT refused by the server raises.  Lines 324-325 follow when
\* nothing is raised.
S_Exit ==
    /\ pc = "s_exit"
    /\ \E quitOk \in BOOLEAN :
          /\ smtpLog' = smtpLog \o <<Event("quit", quitOk), Event("close", TRUE)>>
          /\ IF pending \/ ~quitOk
             THEN /\ pc' = "s_except"
                  /\ UNCHANGED <<sendResult, outcome>>
             ELSE /\ pc' = "s_return"
                  /\ sendResult' = "True"
                  /\ outcome' = "sent"
    /\ pending' = FALSE
    /\ UNCHANGED <<config, data, caller, pdf_bytes, saved, attachments, sendArgs,
                   sendCalls, msg, escaped, responses>>

\* lines 327-329: except Exception: return False
S_Except ==
    /\ pc = "s_except"
    /\ IF SendCatches(smtpLog)
       THEN /\ sendResult' = "False"
            /\ outcome' = "failed"
            /\ pc' = "s_return"
            /\ UNCHANGED escaped
       ELSE /\ escaped' = TRUE
            /\ pc' = IF caller = "handler" THEN "h_except" ELSE "done"
            /\ UNCHANGED <<sendResult, outcome>>
    /\ UNCHANGED <<config, data, caller, pdf_bytes, saved, attachments, sendArgs,
                   sendCalls, msg, smtpLog, pending, responses>>

\* send returns to its caller; the handler discards the value (line 446)
S_Return ==
    /\ pc = "s_return"
    /\ pc' = IF caller = "handler" THEN "h_respond" ELSE "done"
    /\ UNCHANGED <<config, data, caller, pdf_bytes, saved, attachments, sendArgs,
                   sendCalls, msg, smtpLog, pending, sendResult, outcome, escaped,
                   responses>>

\* lines 453-459
H_Respond ==
    /\ pc = "h_respond"
    /\ responses' = Append(responses, SuccessResponse(data.id, PdfFilename(data.id)))
    /\ pc' = "done"
    /\ UNCHANGED <<config, data, caller, pdf_bytes, saved, attachments, sendArgs,
                   sendCalls, msg, smtpLog, pending, sendResult, outcome, escaped>>

\* lines 461-465
H_Except ==
    /\ pc = "h_except"
    /\ responses' = Append(responses, ErrorResponse)
    /\ pc' = "done"
    /\ UNCHANGED <<config, data, caller, pdf_bytes, saved, attachments, sendArgs,
                   sendCalls, msg, smtpLog, pending, sendResult, outcome, escaped>>

Next ==
    \/ H_Generate
    \/ H_Save
    \/ H_CheckOffice
    \/ H_Prepare
    \/ H_CallSend
    \/ S_Enter
    \/ S_Connect
    \/ S_StartTLS
    \/ S_Login
    \/ S_SendMessage
    \/ S_Exit
    \/ S_Except
    \/ S_Return
    \/ H_Respond
    \/ H_Except

Spec == Init /\ [][Next]_vars

\* send called on its own, with no, one or two attachments
DirectAttachments ==
    LET pdf == [name |-> PdfFilename("J-100"), content |-> NoDoc]
        jpg == [name |-> PhotoFilename(1, "before"), content |-> B64Decode(ImgB64)]
    IN  {<<>>, <<pdf>>, <<pdf, jpg>>}

InitDirect ==
    /\ config \in Configs
    /\ data \in {d \in FlowRecords : d.timestamp = TsIsoZ /\ d.plumber = "dict"
                                      /\ d.answers = Unanswered /\ d.photos = NoPhotos}
    /\ pc = "s_enter"
    /\ caller = "direct"
    /\ pdf_bytes = NoDoc
    /\ saved = FALSE
    /\ attachments = <<>>
    /\ sendArgs \in DirectAttachments
    /\ sendCalls = 0
    /\ msg = <<>>
    /\ smtpLog = <<>>
    /\ pending = FALSE
    /\ sendResult = "none"
    /\ outcome = "none"
    /\ escaped = FALSE
    /\ responses = <<>>

SpecSend == (Init \/ InitDirect) /\ [][Next]_vars

SpecPhotos == InitPhotos /\ [][Next]_vars

(***************************************************************************)
(* Properties.                                                             *)
(***************************************************************************)
Last(s) == s[Len(s)]

SendReturned == sendCalls > 0 /\ pc \in {"s_return", "h_respond", "done"} /\ ~escaped

Succeeded ==
    responses = << SuccessResponse(data.id, PdfFilename(data.id)) >>

\* C1: whatever the transport does (connect, STARTTLS, login, transmission
\* or QUIT failing or not) and whatever attachment list it is given, send
\* ends by returning, with one of the outcomes sent / skipped / failed
\* (True for sent, False for the other two), and no exception leaves it.
C1_SendNeverThrows ==
    /\ ~escaped
    /\ SendReturned =>
          /\ outcome \in {"sent", "skipped", "failed"}
          /\ sendResult = (IF outcome = "sent" THEN "True" ELSE "False")
    /\ (pc = "done" /\ sendCalls > 0) => SendReturned

C1_Witness ==
    /\ pc = "done"
    /\ caller = "direct"
    /\ sendArgs = <<>>
    /\ outcome = "failed"
    /\ \E i \in 1..Len(smtpLog) : smtpLog[i] = Event("login", FALSE)

\* C2: when the user name or the password is empty, a call of send ends as
\* skipped with no SMTP event at all, and the submission that made the call
\* has produced its PDF and answers with the success response naming it.
C2_SkippedWithoutConnection ==
    (sendCalls > 0 /\ (config.user = "" \/ config.password = "")) =>
        /\ outcome = "skipped"
        /\ sendResult = "False"
        /\ smtpLog = <<>>
        /\ msg = <<>>
        /\ pdf_bytes = generate(data).doc
        /\ saved
        /\ pc = "done" => Succeeded

C2_Witness ==
    /\ pc = "done"
    /\ sendCalls = 1
    /\ config.user # ""
    /\ config.password = ""
    /\ outcome = "skipped"
    /\ Succeeded

\* C3 as stated: every submission whose document assembly succeeded ends
\* with the success response.
C3_SuccessAfterAssembly ==
    (pc = "done" /\ pdf_bytes # NoDoc) => Succeeded

\* C3, amended: every submission whose PDF was assembled and saved and that
\* got as far as the dispatcher (or has no recipient configured) ends with
\* the success response naming the PDF, whatever send's outcome was, and no
\* exception of the delivery reached the handler.
C3_SuccessWhateverDelivery ==
    (pc = "done" /\ saved /\ (config.office_email = "" \/ sendCalls > 0)) =>
        /\ Succeeded
        /\ ~escaped
        /\ pdf_bytes = generate(data).doc

C3_Witness ==
    /\ pc = "done"
    /\ outcome = "failed"
    /\ \E i \in 1..Len(smtpLog) : smtpLog[i] = Event("send_message", FALSE)
    /\ Succeeded

DeliveryField(r) == IF "delivery" \in DOMAIN r THEN r.delivery ELSE "absent"

\* C4: the success response carries the delivery outcome as a field of its
\* own (sent, skipped or failed; none when no dispatch was attempted).
C4_DeliveryReported ==
    (pc = "done" /\ responses # <<>> /\ Last(responses).success) =>
        DeliveryField(Last(responses)) = outcome

\* a payload the attachment loops can decode: a string, bare or wrapped,
\* with a comma after a data-URI prefix, of decodable length and padding
C5_Decodable(p) ==
    /\ p.shape \in {"str", "wrapped"}
    /\ p.s.uri => p.s.comma
    /\ p.s.pad

C6_FourFixedCells ==
    pdf_bytes # NoDoc =>
        /\ Len(pdf_bytes.cells) =
              Len(photo_keys)
              + Cardinality({i \in 1..Len(data.extras) :
                                PhotoCell([s |-> data.extras[i].s, label |-> ""]).image})
        /\ \A i \in 1..Len(photo_keys) : pdf_bytes.cells[i].label = photo_labels[i]

\* C7: with an absent or malformed timestamp the document is still built
\* and its DATO / TID value is a formatted date and time.
C7_TimestampFallback ==
    (pc = "done" /\ data.timestamp \in {TsAbsent, TsMalformed}) =>
        /\ pdf_bytes # NoDoc
        /\ pdf_bytes.date_time = "strftime"

NonBase64(p) == p.shape = "str" /\ ~(p.s.clean /\ p.s.pad)

\* C8: a fixed or extra slot holding a string that is not base64 gets no
\* image cell and no attachment, the PDF stays the first attachment, and the
\* request still answers with success.
C8_NonBase64Skipped ==
    /\ pdf_bytes # NoDoc =>
          \A i \in 1..Len(pdf_bytes.cells) :
             pdf_bytes.cells[i].image =>
                \E k \in 1..Len(photo_keys) :
                   /\ pdf_bytes.cells[i].label = photo_labels[k]
                   /\ ~NonBase64(data.photos[photo_keys[k]])
    /\ attachments # <<>> =>
          /\ attachments[1].name = PdfFilename(data.id)
          /\ \A i \in 2..Len(attachments) :
                /\ attachments[i].name.key \in FixedSlots =>
                      ~NonBase64(data.photos[attachments[i].name.key])
                /\ \A j \in 1..Len(data.extras) :
                      attachments[i].name.key = ExtraKeys[j] => ~NonBase64(data.extras[j])
    /\ (pc = "done" /\ sendCalls > 0) => Succeeded

RenderedState(row) == IF "state" \in DOMAIN row THEN row.state ELSE "none"

ExpectedState(answer) ==
    CASE answer = "true"  -> "affirmed"
      [] answer = "false" -> "denied"
      [] answer = "unset" -> "unknown"

\* C9: the status table has the three checklist rows in order, each showing
\* affirmed, denied or unknown according to its answer.
C9_TernaryStatus ==
    pdf_bytes # NoDoc =>
        /\ Len(pdf_bytes.status) = 3
        /\ \A i \in 1..3 :
              RenderedState(pdf_bytes.status[i]) = ExpectedState(data.answers[i])

\* C10: send is called at most once and only when the whole PDF exists, its
\* attachment list starts with that PDF, and a response is written only
\* once, after assembly and after the send call (if made) has ended.
C10_StrictOrder ==
    /\ sendCalls <= 1
    /\ pc \in {"h_send", "s_enter"} \/ sendCalls > 0 =>
          /\ pdf_bytes = generate(data).doc
          /\ pdf_bytes # NoDoc
          /\ attachments # <<>>
          /\ attachments[1] = [name |-> PdfFilename(data.id), content |-> pdf_bytes]
    /\ sendCalls > 0 => sendArgs = attachments
    /\ responses # <<>> =>
          /\ pc = "done"
          /\ Len(responses) = 1
          /\ sendCalls > 0 => (outcome # "none" \/ escaped)
          /\ Last(responses).success => pdf_bytes # NoDoc

C10_Witness ==
    /\ pc = "done"
    /\ sendCalls = 1
    /\ outcome = "sent"
    /\ Len(sendArgs) = 2
    /\ Succeeded

\* position of an SMTP step in a session
StepRank(op) ==
    CASE op = "connect"      -> 1
      [] op = "starttls"     -> 2
      [] op = "login"        -> 3
      [] op = "send_message" -> 4
      [] op = "quit"         -> 5
      [] op = "close"        -> 6

SessionOpened == smtpLog # <<>> /\ smtpLog[1] = Event("connect", TRUE)

SendLeft == pc \in {"s_except", "s_return", "h_respond", "h_except", "done"}

\* C11: the steps of a send call come in the order connect, STARTTLS, login,
\* send_message, each at most once (one connection attempt, no retry);
\* login only after a successful STARTTLS and send_message only after a
\* successful login; a failed step is followed by the teardown alone; and
\* once send is past its with-block, a session that was opened has been
\* closed, whichever step failed or none.
C11_SessionOrderAndTeardown ==
    /\ \A i, j \in 1..Len(smtpLog) :
          i < j => StepRank(smtpLog[i].op) < StepRank(smtpLog[j].op)
    /\ Cardinality({i \in 1..Len(smtpLog) : smtpLog[i].op = "connect"}) <= 1
    /\ Len(smtpLog) > 1 => SessionOpened
    /\ \A i \in 1..Len(smtpLog) :
          /\ smtpLog[i].op \in {"login", "send_message"} =>
                \E j \in 1..(i - 1) : smtpLog[j] = Event("starttls", TRUE)
          /\ smtpLog[i].op = "send_message" =>
                \E j \in 1..(i - 1) : smtpLog[j] = Event("login", TRUE)
          /\ (smtpLog[i].op \in {"starttls", "login", "send_message"}
                 /\ ~smtpLog[i].ok /\ i < Len(smtpLog)) =>
                smtpLog[i + 1].op = "quit"
    /\ (SessionOpened /\ SendLeft) => Last(smtpLog) = Event("close", TRUE)
    /\ outcome = "sent" =>
          \E q \in BOOLEAN :
             smtpLog = << Event("connect", TRUE), Event("starttls", TRUE),
                          Event("login", TRUE), Event("send_message", TRUE),
                          Event("quit", q), Event("close", TRUE) >>

C11_Witness ==
    /\ pc = "done"
    /\ outcome = "failed"
    /\ Len(smtpLog) = 5
    /\ smtpLog[3] = Event("login", FALSE)
    /\ smtpLog[5] = Event("close", TRUE)

====
